---- MODULE Spec2Model ----
(* Model of src/planarize.py: the Planarize operator, the per-vertex       *)
(* least-squares pass `planarize` and the normal smoother                  *)
(* `get_smoothened_normals`.                                               *)
(*                                                                         *)
(* Host data (bpy / mathutils), as the code uses it:                       *)
(*  - reading a property of a mesh element (vertex.co, face.normal) gives  *)
(*    a mathutils.Vector that wraps the element's data: it is a VIEW, and  *)
(*    every later read through it sees the element's current data;         *)
(*  - the result of arithmetic (alpha * v, a.dot(b), v.normalized(),       *)
(*    sum(...)) is a fresh VALUE that nothing else changes;                *)
(*  - face.normal and face.center are derived by the host from the current *)
(*    vertex positions of the face.                                        *)
(* Geometry is one-dimensional: a position is its coordinate along one     *)
(* axis, a normal is -1, 0 or 1 along that axis (0: a degenerate face).    *)
(* numpy.linalg.lstsq is not computed: its result is any coordinate.       *)
EXTENDS Integers, Sequences, FiniteSets, TLC

\* ---------------------------------------------------------------- bounds
MaxIterations == 2
CoordMax == 1
AnchorCount == 2

\* ------------------------------------------------------ program constants
Rounds == 5
MinNeighbors == 3
MinPlanes == 3
TriangleSize == 3
Nearest == 3

\* Rigidity is counted in units of 1e-3 / Den, so that rigidity / 2^i is exact.
Den == 2 ^ MaxIterations
Floor == Den
One == 1000 * Den

Coords == 0 .. CoordMax
Normals == {-1, 0, 1}
ReqRigidity == {0 - One, 0, One}
ReqIterations == 0 .. MaxIterations

\* The values asked for the two properties: every valid pair, and the pairs
\* with a rigidity below 0 or a step count below 1 (a negative rigidity is
\* asked for with at most one step).
Requests ==
  { q \in ReqRigidity \X ReqIterations : q[1] < 0 => q[2] <= 1 }

\* The meshes of the runs: a single quad (one quad around each vertex); and
\* three quads over the same four vertices (three quads around each vertex)
\* next to a triangle of its own (no quad around its vertices).
Meshes ==
  { << <<1, 2, 3, 4>> >>,
    << <<1, 2, 3, 4>>, <<4, 3, 2, 1>>, <<1, 3, 2, 4>>, <<5, 6, 7>> >> }

VARIABLES
  faces, co, fnormal,
  req_rigidity, req_iterations, rigidity, iterations, do_smoothen,
  pc, caller, iteration, orig_coords, normals,
  neighbors, snormals, randfaces, round, pos, round_start,
  planes, prigidity, vpos, last,
  co0, smooth_calls, pass_log, fnormal0,
  sb_version, sb_modal, sb_result, points, anchors, show_hidden,
  sb_added, sb_removed, sb_exec

vars == << faces, co, fnormal,
           req_rigidity, req_iterations, rigidity, iterations, do_smoothen,
           pc, caller, iteration, orig_coords, normals,
           neighbors, snormals, randfaces, round, pos, round_start,
           planes, prigidity, vpos, last,
           co0, smooth_calls, pass_log, fnormal0,
           sb_version, sb_modal, sb_result, points, anchors, show_hidden,
           sb_added, sb_removed, sb_exec >>

meshvars == << faces, co, fnormal >>
propvars == << req_rigidity, req_iterations, rigidity, iterations, do_smoothen >>
smoothvars == << neighbors, snormals, randfaces, round, pos, round_start >>
passvars == << planes, prigidity, vpos, last >>
snapvars == << sb_version, sb_modal, sb_result, points, anchors, show_hidden,
               sb_added, sb_removed, sb_exec >>
planarizevars == << faces, co, fnormal,
                    req_rigidity, req_iterations, rigidity, iterations, do_smoothen,
                    pc, caller, iteration, orig_coords, normals,
                    neighbors, snormals, randfaces, round, pos, round_start,
                    planes, prigidity, vpos, last,
                    co0, smooth_calls, pass_log, fnormal0 >>

\* ------------------------------------------------------------- helpers
RECURSIVE SeqMax(_)
SeqMax(s) == IF s = << >> THEN 0
             ELSE IF Head(s) > SeqMax(Tail(s)) THEN Head(s) ELSE SeqMax(Tail(s))

RECURSIVE Flatten(_)
Flatten(ss) == IF ss = << >> THEN << >> ELSE Head(ss) \o Flatten(Tail(ss))

RECURSIVE SeqSum(_)
SeqSum(s) == IF s = << >> THEN 0 ELSE Head(s) + SeqSum(Tail(s))

FaceIds == 1 .. Len(faces)
NumVerts == SeqMax([f \in FaceIds |-> SeqMax(faces[f])])
Verts == 1 .. NumVerts

\* A normal held by the program: a view of face.normal, or a value.
View(f) == [view |-> TRUE, face |-> f, val |-> 0]
Value(n) == [view |-> FALSE, face |-> 0, val |-> n]
Read(nor) == IF nor.view THEN fnormal[nor.face] ELSE nor.val

\* A position held by the program: a view of vertex.co, or a value.
CoView(v) == [view |-> TRUE, vertex |-> v, val |-> 0]
CoValue(x) == [view |-> FALSE, vertex |-> 0, val |-> x]
ReadCo(c) == IF c.view THEN co[c.vertex] ELSE c.val

\* face.center, times the number of vertices of the face.
Center(f) == SeqSum([k \in 1 .. Len(faces[f]) |-> co[faces[f][k]]])

\* FloatProperty(min=0) and IntProperty(min=1): a value below the minimum is
\* stored as the minimum.
ClampRigidity(r) == IF r < 0 THEN 0 ELSE r
ClampIterations(n) == IF n < 1 THEN 1 ELSE n

\* The normal fields of the meshes at the start: the faces alternating (a
\* face and its back side), or a face, its back side and a degenerate face
\* in turn.
NormalFields ==
  { [f \in FaceIds |-> IF f % 2 = 1 THEN 1 ELSE -1],
    [f \in FaceIds |-> IF f % 3 = 1 THEN 1 ELSE IF f % 3 = 2 THEN -1 ELSE 0] }

NoPlanes == [v \in Verts |-> << >>]
NoSolve == [vertex |-> 0, alpha |-> 0, b |-> 0, rows |-> << >>, rank |-> 0]

\* The Snap Bisect operator before it is invoked.
SnapIdle ==
  /\ sb_version = "none"
  /\ sb_modal = FALSE
  /\ sb_result = "NONE"
  /\ points = << >>
  /\ anchors = {}
  /\ show_hidden = FALSE
  /\ sb_added = 0
  /\ sb_removed = 0
  /\ sb_exec = 0

Init ==
  /\ faces \in Meshes
  /\ co = [v \in Verts |-> 0]
  /\ fnormal \in NormalFields
  /\ \E q \in Requests : req_rigidity = q[1] /\ req_iterations = q[2]
  /\ rigidity = ClampRigidity(req_rigidity)
  /\ iterations = ClampIterations(req_iterations)
  /\ do_smoothen \in BOOLEAN
  /\ pc = "idle"
  /\ caller = "none"
  /\ iteration = 0
  /\ orig_coords = [v \in Verts |-> CoValue(0)]
  /\ normals = [f \in FaceIds |-> View(f)]
  /\ neighbors = [f \in FaceIds |-> << >>]
  /\ snormals = [f \in FaceIds |-> View(f)]
  /\ randfaces = << >>
  /\ round_start = [f \in FaceIds |-> View(f)]
  /\ round = 0
  /\ pos = 0
  /\ planes = NoPlanes
  /\ prigidity = 0
  /\ vpos = 0
  /\ last = NoSolve
  /\ co0 = co
  /\ smooth_calls = 0
  /\ pass_log = << >>
  /\ fnormal0 = fnormal
  /\ SnapIdle

\* ------------------------------------------------ get_smoothened_normals
\* incidence[vertex]: the faces that list the vertex, in face order.
Incidence(v) == SelectSeq([f \in FaceIds |-> f], LAMBDA f : \E k \in 1 .. Len(faces[f]) : faces[f][k] = v)

\* neighbors[face] as a list without duplicates: every other face that shares
\* a vertex with the face, once.
NeighborsOfUnique(f) ==
  SelectSeq([g \in FaceIds |-> g],
            LAMBDA g : g # f /\ \E j \in 1 .. Len(faces[f]) : \E k \in 1 .. Len(faces[g]) :
                                   faces[f][j] = faces[g][k])

\* neighbors[face]: for each vertex of the face in turn, the faces around
\* that vertex other than the face itself, duplicates kept.
NeighborsOf(f) ==
  Flatten([k \in 1 .. Len(faces[f]) |-> SelectSeq(Incidence(faces[f][k]), LAMBDA other : other # f)])

\* Line 31 without the test: every face is updated.
CandidatesAll(nb) == [f \in FaceIds |-> f]

\* The faces that are updated: those with at least 3 neighbor entries.
Candidates(nb) == SelectSeq([f \in FaceIds |-> f], LAMBDA f : Len(nb[f]) >= MinNeighbors)

\* (other_normal - nor).length_squared
DistSq(other_normal, nor) == (other_normal - nor) * (other_normal - nor)

\* list.sort(key=...) is stable: x goes after every element whose key is not larger.
RECURSIVE InsertByKey(_, _, _)
InsertByKey(x, s, nor) ==
  IF s = << >> THEN << x >>
  ELSE IF DistSq(x, nor) < DistSq(Head(s), nor) THEN << x >> \o s
  ELSE << Head(s) >> \o InsertByKey(x, Tail(s), nor)

RECURSIVE SortByKey(_, _)
SortByKey(s, nor) ==
  IF s = << >> THEN << >>
  ELSE InsertByKey(s[Len(s)], SortByKey(SubSeq(s, 1, Len(s) - 1), nor), nor)

Take(s, n) == SubSeq(s, 1, IF Len(s) < n THEN Len(s) ELSE n)

\* Vector.normalized(): the unit vector of the same direction; the zero
\* vector stays the zero vector.
Normalized(x) == IF x > 0 THEN 1 ELSE IF x < 0 THEN -1 ELSE 0

\* The normal a visited face gets (lines 35-38).
Smoothened(f, nrm, nb) ==
  LET nor == Read(nrm[f])
      nearest == SortByKey([k \in 1 .. Len(nb[f]) |-> Read(nrm[nb[f][k]])], nor)
  IN Normalized(SeqSum(Take(nearest, Nearest)))

Shuffles(s) ==
  { [i \in 1 .. Len(s) |-> s[q[i]]] :
      q \in { r \in [1 .. Len(s) -> 1 .. Len(s)] :
                \A i, j \in 1 .. Len(s) : r[i] = r[j] => i = j } }

\* Lines 23-31: incidence, neighbors, the initial normals, the candidates.
SmoothStart ==
  /\ pc = "smooth"
  /\ neighbors' = [f \in FaceIds |-> NeighborsOf(f)]
  /\ snormals' = [f \in FaceIds |-> View(f)]
  /\ randfaces' = Candidates([f \in FaceIds |-> NeighborsOf(f)])
  /\ round_start' = [f \in FaceIds |-> View(f)]
  /\ round' = 0
  /\ pos' = 0
  /\ smooth_calls' = smooth_calls + 1
  /\ pc' = "round"
  /\ UNCHANGED << snapvars, meshvars, propvars, caller, iteration, orig_coords, normals,
                  passvars, co0, pass_log, fnormal0 >>

\* Lines 32-33: the next round starts with a shuffle of the candidates.
Shuffle ==
  /\ pc = "round"
  /\ round < Rounds
  /\ randfaces' \in Shuffles(randfaces)
  /\ round_start' = snormals
  /\ pos' = 1
  /\ pc' = "visit"
  /\ UNCHANGED << snapvars, meshvars, propvars, caller, iteration, orig_coords, normals,
                  neighbors, snormals, round, passvars, co0, smooth_calls,
                  pass_log, fnormal0 >>

\* The normals of the round's start in place of the dictionary being updated.
RoundStartNormals == round_start

\* The normals a visit reads (lines 35-36): the dictionary `normals` that line
\* 38 assigns into.
VisitNormals == snormals

\* Lines 34-38: one face of the round.
Visit ==
  /\ pc = "visit"
  /\ pos <= Len(randfaces)
  /\ snormals' = [snormals EXCEPT ![randfaces[pos]] =
                    Value(Smoothened(randfaces[pos], VisitNormals, neighbors))]
  /\ pos' = pos + 1
  /\ UNCHANGED << snapvars, meshvars, propvars, pc, caller, iteration, orig_coords, normals,
                  neighbors, randfaces, round, round_start, passvars, co0, smooth_calls,
                  pass_log, fnormal0 >>

\* The inner loop is exhausted: on to the next round.
RoundEnd ==
  /\ pc = "visit"
  /\ pos > Len(randfaces)
  /\ round' = round + 1
  /\ pc' = "round"
  /\ UNCHANGED << snapvars, meshvars, propvars, caller, iteration, orig_coords, normals,
                  neighbors, snormals, randfaces, pos, round_start, passvars, co0,
                  smooth_calls, pass_log, fnormal0 >>

\* Line 39 and the assignment of line 86; the locals of the call are gone.
SmoothReturn ==
  /\ pc = "round"
  /\ round >= Rounds
  /\ normals' = snormals
  /\ neighbors' = [f \in FaceIds |-> << >>]
  /\ snormals' = [f \in FaceIds |-> View(f)]
  /\ randfaces' = << >>
  /\ round_start' = [f \in FaceIds |-> View(f)]
  /\ round' = 0
  /\ pos' = 0
  /\ pc' = "call_planarize"
  /\ UNCHANGED << snapvars, meshvars, propvars, caller, iteration, orig_coords,
                  passvars, co0, smooth_calls, pass_log, fnormal0 >>

\* ---------------------------------------------------------------- planarize
\* Lines 43-49: the plane pairs of a vertex, in face order. nor is the object
\* normals[face], c the number normals[face].dot(face.center); src and n0
\* record the face and the normal read when the pair was made.
PlanePair(f) ==
  [nor |-> normals[f], c |-> Read(normals[f]) * Center(f), src |-> f, n0 |-> Read(normals[f])]

\* The test of line 45 written as `< 3`: triangles are let through.
ContributesTriangles(f) == ~(Len(faces[f]) < TriangleSize)

Contributes(f) == Len(faces[f]) # TriangleSize

PlanesOf(v) ==
  LET with == SelectSeq([f \in FaceIds |-> f],
                 LAMBDA f : Contributes(f) /\ \E k \in 1 .. Len(faces[f]) : faces[f][k] = v)
  IN [k \in 1 .. Len(with) |-> PlanePair(with[k])]

Max(a, b) == IF a > b THEN a ELSE b

\* Line 51 without max(): the floor replaces the rigidity.
AlphaFloorOnly(rig, nplanes) == IF nplanes >= MinPlanes THEN rig ELSE Floor

\* Line 51 without the floor.
AlphaNoFloor(rig, nplanes) == rig

\* Line 51.
Alpha(rig, nplanes) == IF nplanes >= MinPlanes THEN rig ELSE Max(rig, Floor)

\* The rows of A below the anchor rows, as lstsq reads them (lines 54-57).
RowsRead(v) == [k \in 1 .. Len(planes[v]) |-> [n |-> Read(planes[v][k].nor), c |-> planes[v][k].c]]

\* The rank lstsq finds: the anchor rows alpha * eye(3) have rank 3 unless
\* alpha is 0; the plane rows all lie along one axis.
Rank(alpha, rows) ==
  IF alpha # 0 THEN 3
  ELSE IF \E k \in 1 .. Len(rows) : rows[k].n # 0 THEN 1 ELSE 0

\* The coordinates lstsq may return. When every plane row is 0 * x = 0 (or
\* there is none) the system is alpha * x = alpha * orig: its solution is
\* orig, or the minimum-norm solution 0 when alpha is 0 as well. Otherwise
\* any coordinate.
Lstsq(alpha, orig, rows) ==
  IF \A k \in 1 .. Len(rows) : rows[k].n = 0 /\ rows[k].c = 0
    THEN IF alpha # 0 THEN {orig} ELSE {0}
    ELSE Coords

\* The normal the host derives for a face after one of its vertices moved by
\* d: the normal turns one step through -1, 0, 1 per unit of movement.
Turn(n, d) == ((n + 1 + d) % 3) - 1

FacesAround(v) == {f \in FaceIds : \E k \in 1 .. Len(faces[f]) : faces[f][k] = v}

\* The rigidity argument of the call: line 87, or the caller's own value.
RigidityArg ==
  IF caller = "execute" THEN rigidity \div (2 ^ iteration) ELSE req_rigidity

PlanarizeStart ==
  /\ pc = "call_planarize"
  /\ planes' = [v \in Verts |-> PlanesOf(v)]
  /\ prigidity' = RigidityArg
  /\ vpos' = 1
  /\ last' = NoSolve
  /\ pass_log' = Append(pass_log, [rigidity |-> RigidityArg, smoothed |-> smooth_calls])
  /\ pc' = "solve"
  /\ UNCHANGED << snapvars, meshvars, propvars, caller, iteration, orig_coords, normals,
                  smoothvars, co0, smooth_calls, fnormal0 >>

\* Lines 50-58 for one vertex. The write of line 58 changes the vertex, and
\* with it the normals the host derives for the faces around the vertex.
Solve ==
  /\ pc = "solve"
  /\ vpos <= NumVerts
  /\ LET v == vpos
         alpha == Alpha(prigidity, Len(planes[v]))
         orig == ReadCo(orig_coords[v])
         rows == RowsRead(v)
     IN /\ \E coords \in Lstsq(alpha, orig, rows) :
             /\ co' = [co EXCEPT ![v] = coords]
             /\ fnormal' = [f \in FaceIds |->
                              IF f \in FacesAround(v)
                                THEN Turn(fnormal[f], coords - co[v])
                                ELSE fnormal[f]]
        /\ last' = [vertex |-> v, alpha |-> alpha, b |-> alpha * orig,
                     rows |-> rows, rank |-> Rank(alpha, rows)]
  /\ vpos' = vpos + 1
  /\ UNCHANGED << snapvars, faces, propvars, pc, caller, iteration, orig_coords, normals,
                  smoothvars, planes, prigidity, co0, smooth_calls, pass_log,
                  fnormal0 >>

\* The loop of line 50 is exhausted: back to the caller, the locals of the
\* call are gone.
PlanarizeReturn ==
  /\ pc = "solve"
  /\ vpos > NumVerts
  /\ IF caller = "execute"
       THEN iteration' = iteration + 1 /\ pc' = "loop"
       ELSE iteration' = iteration /\ pc' = "done"
  /\ planes' = NoPlanes
  /\ prigidity' = 0
  /\ vpos' = 0
  /\ last' = NoSolve
  /\ UNCHANGED << snapvars, meshvars, propvars, caller, orig_coords, normals, smoothvars,
                  co0, smooth_calls, pass_log, fnormal0 >>

\* ------------------------------------------------------- Planarize.execute
\* Lines 77-83.
Execute ==
  /\ pc = "idle"
  /\ caller' = "execute"
  /\ orig_coords' = [v \in Verts |-> CoView(v)]
  /\ normals' = [f \in FaceIds |-> View(f)]
  /\ iteration' = 0
  /\ co0' = co
  /\ fnormal0' = fnormal
  /\ pc' = "loop"
  /\ UNCHANGED << snapvars, meshvars, propvars, smoothvars, passvars, smooth_calls, pass_log >>

\* Lines 84-86 with do_smoothen set.
LoopSmooth ==
  /\ pc = "loop"
  /\ iteration < iterations
  /\ do_smoothen
  /\ pc' = "smooth"
  /\ UNCHANGED << snapvars, meshvars, propvars, caller, iteration, orig_coords, normals,
                  smoothvars, passvars, co0, smooth_calls, pass_log, fnormal0 >>

\* Lines 84-87 with do_smoothen clear.
LoopPlain ==
  /\ pc = "loop"
  /\ iteration < iterations
  /\ ~do_smoothen
  /\ pc' = "call_planarize"
  /\ UNCHANGED << snapvars, meshvars, propvars, caller, iteration, orig_coords, normals,
                  smoothvars, passvars, co0, smooth_calls, pass_log, fnormal0 >>

\* Lines 89-90.
Finish ==
  /\ pc = "loop"
  /\ iteration >= iterations
  /\ pc' = "done"
  /\ UNCHANGED << snapvars, meshvars, propvars, caller, iteration, orig_coords, normals,
                  smoothvars, passvars, co0, smooth_calls, pass_log, fnormal0 >>

\* A script calls planarize itself, with the rigidity it likes and with the
\* mappings execute would build.
CallPlanarize ==
  /\ pc = "idle"
  /\ caller' = "script"
  /\ orig_coords' = [v \in Verts |-> CoView(v)]
  /\ normals' = [f \in FaceIds |-> View(f)]
  /\ co0' = co
  /\ fnormal0' = fnormal
  /\ pc' = "call_planarize"
  /\ UNCHANGED << snapvars, meshvars, propvars, iteration, smoothvars, passvars,
                  smooth_calls, pass_log >>

Next ==
  \/ Execute \/ CallPlanarize
  \/ LoopSmooth \/ LoopPlain \/ Finish
  \/ SmoothStart \/ Shuffle \/ Visit \/ RoundEnd \/ SmoothReturn
  \/ PlanarizeStart \/ Solve \/ PlanarizeReturn
Spec == Init /\ [][Next]_vars
\* ------------------------------------------------- SnapBisect (snap_bisect)
\* The operator exists twice: the module src/snap_bisect.py and the package
\* src/snap_bisect/__init__.py. Points are tokens: an anchor of the mesh is
\* its number, the points the keys make up are numbers above 100.
SnapVersions == {"module", "package"}
EventTypes == {"RIGHTMOUSE", "ESC", "LEFTMOUSE", "RET", "SPACE", "NUMPAD_ENTER",
               "X", "Y", "Z", "H", "MOUSEMOVE"}
EventValues == {"PRESS", "RELEASE"}
Events == [type : EventTypes, value : EventValues]

\* reset_points: the vertices and edge midpoints in sight, and the hidden
\* vertices when show_hidden is set.
ResetPoints(hidden) == IF hidden THEN 1 .. (AnchorCount + 1) ELSE 1 .. AnchorCount

ViewPoint == 100
AxisIndex(type) == IF type = "X" THEN 1 ELSE IF type = "Y" THEN 2 ELSE 3
AxisPoint(type, k) == 200 + 10 * AxisIndex(type) + k

\* The test at the end of modal with `>` for `>=`.
FinishesAbove(n) == n > 3

\* The test at the end of modal: len(self.points) >= 3.
Finishes(n) == n >= 3

\* The end of modal, after a branch left pts in self.points: with 3 points
\* the draw handler is removed and execute is called, which cuts the mesh or
\* finds the points collinear; with fewer the operator stays modal.
ModalTail(pts) ==
  /\ points' = pts
  /\ IF Finishes(Len(pts))
       THEN /\ sb_removed' = sb_removed + 1
            /\ sb_exec' = Len(pts)
            /\ sb_result' \in {"CANCELLED", "FINISHED"}
            /\ sb_modal' = FALSE
       ELSE /\ sb_result' = "RUNNING_MODAL"
            /\ UNCHANGED << sb_removed, sb_exec, sb_modal >>

\* invoke. The package refuses a mesh without selected edges before anything
\* is set up.
SnapInvoke ==
  /\ sb_version = "none"
  /\ \E version \in SnapVersions, selected \in BOOLEAN, hidden \in BOOLEAN :
       /\ sb_version' = version
       /\ show_hidden' = hidden
       /\ points' = << >>
       /\ IF version = "package" /\ ~selected
            THEN /\ sb_result' = "CANCELLED"
                 /\ UNCHANGED << sb_modal, anchors, sb_added >>
            ELSE /\ anchors' = ResetPoints(hidden)
                 /\ sb_added' = sb_added + 1
                 /\ sb_modal' = TRUE
                 /\ sb_result' = "RUNNING_MODAL"
  /\ UNCHANGED << planarizevars, sb_removed, sb_exec >>

\* modal: RIGHTMOUSE, ESC or a mesh that is no longer valid.
ModalCancel ==
  /\ sb_modal
  /\ \E event \in Events, is_valid \in BOOLEAN :
       event.type \in {"RIGHTMOUSE", "ESC"} \/ ~is_valid
  /\ sb_removed' = sb_removed + 1
  /\ sb_result' = "CANCELLED"
  /\ sb_modal' = FALSE
  /\ UNCHANGED << planarizevars, sb_version, points, anchors, show_hidden,
                  sb_added, sb_exec >>

\* modal: LEFTMOUSE pressed. The package's pick gives an anchor that is not
\* picked yet, or None; the module's pick gives the nearest anchor in sight
\* with its distance, and the anchor is taken when it is near enough.
ModalPick ==
  /\ sb_modal
  /\ \E event \in Events : event.type = "LEFTMOUSE" /\ event.value = "PRESS"
  /\ IF sb_version = "package"
       THEN /\ \/ ModalTail(points)
               \/ \E point \in anchors :
                    /\ \A k \in 1 .. Len(points) : points[k] # point
                    /\ ModalTail(Append(points, point))
            /\ anchors' = anchors
       ELSE \E point \in anchors, near \in BOOLEAN :
              IF near
                THEN ModalTail(Append(points, point)) /\ anchors' = anchors \ {point}
                ELSE ModalTail(points) /\ anchors' = anchors
  /\ UNCHANGED << planarizevars, sb_version, show_hidden, sb_added >>

\* modal of the module: LEFTMOUSE pressed with no anchor in sight. min() of
\* an empty sequence raises, and the operator ends with the exception.
ModalPickRaises ==
  /\ sb_modal
  /\ sb_version = "module"
  /\ \E event \in Events : event.type = "LEFTMOUSE" /\ event.value = "PRESS"
  /\ sb_result' = "RAISED"
  /\ sb_modal' = FALSE
  /\ UNCHANGED << planarizevars, sb_version, points, anchors, show_hidden,
                  sb_added, sb_removed, sb_exec >>

\* modal: RET, SPACE or NUMPAD_ENTER; with 2 points the view gives the third.
ModalView ==
  /\ sb_modal
  /\ \E event \in Events : event.type \in {"RET", "SPACE", "NUMPAD_ENTER"}
  /\ IF Len(points) = 2
       THEN ModalTail(Append(points, ViewPoint))
       ELSE ModalTail(points)
  /\ UNCHANGED << planarizevars, sb_version, anchors, show_hidden, sb_added >>

\* modal: X, Y or Z with a point picked; the axes give the missing points.
ModalAxis ==
  /\ sb_modal
  /\ points # << >>
  /\ \E event \in Events :
       /\ event.type \in {"X", "Y", "Z"}
       /\ LET first == IF Len(points) = 1
                         THEN points \o << AxisPoint(event.type, 1), AxisPoint(event.type, 2) >>
                         ELSE points
              second == IF Len(first) = 2
                          THEN Append(first, AxisPoint(event.type, 3))
                          ELSE first
          IN ModalTail(second)
  /\ UNCHANGED << planarizevars, sb_version, anchors, show_hidden, sb_added >>

\* modal: H pressed.
ModalToggleHidden ==
  /\ sb_modal
  /\ \E event \in Events : event.type = "H" /\ event.value = "PRESS"
  /\ show_hidden' = ~show_hidden
  /\ anchors' = ResetPoints(~show_hidden)
  /\ ModalTail(points)
  /\ UNCHANGED << planarizevars, sb_version, sb_added >>

\* modal: any other event.
ModalPassThrough ==
  /\ sb_modal
  /\ \E event \in Events :
       /\ event.type \notin {"RIGHTMOUSE", "ESC", "RET", "SPACE", "NUMPAD_ENTER"}
       /\ ~(event.type = "LEFTMOUSE" /\ event.value = "PRESS")
       /\ ~(event.type \in {"X", "Y", "Z"} /\ points # << >>)
       /\ ~(event.type = "H" /\ event.value = "PRESS")
  /\ sb_result' = "PASS_THROUGH"
  /\ UNCHANGED << planarizevars, sb_version, sb_modal, points, anchors, show_hidden,
                  sb_added, sb_removed, sb_exec >>

InitSnap ==
  /\ Init
  /\ Len(faces) = 1
  /\ req_rigidity = One
  /\ req_iterations = 1
  /\ ~do_smoothen

NextSnap ==
  \/ SnapInvoke
  \/ ModalCancel \/ ModalPick \/ ModalPickRaises \/ ModalView \/ ModalAxis
  \/ ModalToggleHidden \/ ModalPassThrough

SpecSnap == InitSnap /\ [][NextSnap]_vars

\* =================================================================== claims

\* The values asked for the properties are within their documented ranges.
ValidRequest == req_rigidity >= 0 /\ req_iterations >= 1

\* C1: the snapshot orig_coords built before iteration 0 keeps, for every
\* vertex, the position the vertex had before iteration 0, whatever planarize
\* has written since.
C1_SnapshotNeverChanges ==
  (ValidRequest /\ pc # "idle") => \A v \in Verts : ReadCo(orig_coords[v]) = co0[v]

\* C2: no entry of planes[vertex] comes from a face with exactly 3 vertices.
C2_TrianglesNeverConstrain ==
  \A v \in Verts : \A k \in 1 .. Len(planes[v]) : Len(faces[planes[v][k].src]) # 3

\* C2 witness: a pass over a mesh with a triangle and quads has collected the
\* planes: none for a vertex of the triangle, some for the other vertices.
C2_Witness ==
  /\ pc = "solve"
  /\ \E f \in FaceIds : \E v, w \in Verts :
       /\ Len(faces[f]) = 3
       /\ f \in FacesAround(v)
       /\ planes[v] = << >>
       /\ Len(planes[w]) > 0

\* C3: the anchor weight of a solved vertex is the rigidity passed in when the
\* vertex has at least 3 plane constraints; with fewer it is the larger of the
\* rigidity and 1e-3, so never below 1e-3.
C3_AnchorWeight ==
  last.vertex # 0 =>
    LET n == Len(planes[last.vertex])
    IN /\ n >= 3 => last.alpha = prigidity
       /\ n < 3 => /\ last.alpha \in {prigidity, Floor}
                   /\ last.alpha >= prigidity
                   /\ last.alpha >= Floor

\* C3 witness: solved vertices of both kinds: one with fewer than 3 planes and
\* a rigidity below 1e-3, or one with at least 3 planes and that rigidity.
C3_Witness ==
  /\ last.vertex # 0
  /\ prigidity < Floor
  /\ Len(planes[last.vertex]) < 3
  /\ last.alpha = Floor
  /\ \E v \in Verts : Len(planes[v]) >= 3
\* C4: execute runs rounds i = 0 .. iterations-1 in order; round i invokes the
\* smoother before its solve pass exactly when do_smoothen is set and calls
\* the solve pass with rigidity / 2^i; with do_smoothen clear the smoother is
\* never invoked and every round works with the face normals as they were
\* before round 0.
C4_RoundsHalvingAndNormals ==
  (ValidRequest /\ caller = "execute") =>
    /\ Len(pass_log) <= iterations
    /\ pc = "done" => Len(pass_log) = iterations
    /\ pc \in {"loop", "smooth", "round", "visit"} => Len(pass_log) = iteration
    /\ \A k \in 1 .. Len(pass_log) :
         /\ pass_log[k].rigidity * (2 ^ (k - 1)) = rigidity
         /\ pass_log[k].smoothed = IF do_smoothen THEN k ELSE 0
    /\ ~do_smoothen =>
         /\ smooth_calls = 0
         /\ \A f \in FaceIds : Read(normals[f]) = fnormal0[f]
         /\ \A v \in Verts : \A k \in 1 .. Len(planes[v]) : planes[v][k].n0 = fnormal0[planes[v][k].src]

\* C5: a face with fewer than 3 neighbor entries is never updated by the
\* smoother: during the call and at its return the normal held for the face
\* is the face's own normal.
C5_FewNeighborsKeepNormal ==
  /\ pc \in {"round", "visit"} =>
       \A f \in FaceIds : Len(neighbors[f]) < 3 => Read(snormals[f]) = fnormal[f]
  /\ (pc = "call_planarize" /\ smooth_calls > 0) =>
       \A f \in FaceIds : Len(NeighborsOf(f)) < 3 => Read(normals[f]) = fnormal[f]

\* C5 witness: the smoother returns a field in which a face with fewer than 3
\* neighbor entries sits next to a face whose normal was changed.
C5_Witness ==
  /\ pc = "call_planarize"
  /\ smooth_calls > 0
  /\ \E f, g \in FaceIds :
       /\ Len(NeighborsOf(f)) < 3
       /\ normals[f] = View(f)
       /\ ~normals[g].view
       /\ Read(normals[g]) # fnormal[g]

\* C6: with an invalid configuration (rigidity < 0, or iterations < 1 for the
\* operator) nothing is computed: no smoother call, no solve pass, no vertex
\* written.
C6_InvalidConfigurationRejected ==
  (\/ caller \in {"execute", "script"} /\ req_rigidity < 0
   \/ caller = "execute" /\ req_iterations < 1)
    => /\ smooth_calls = 0
       /\ pass_log = << >>
       /\ last.vertex = 0
       /\ co = co0

\* C7: no smoothing update leaves a face with a zero-length normal (a zero sum
\* of the 3 nearest neighbor normals leaves the face its previous normal).
C7_NoZeroNormalFromUpdate ==
  ValidRequest =>
    /\ \A f \in FaceIds : ~snormals[f].view => snormals[f].val # 0
    /\ \A f \in FaceIds : ~normals[f].view => normals[f].val # 0

\* C8: with rigidity 0 on a single quad face the solve of a vertex fails as a
\* singular system.
C8_SingleQuadZeroRigidityFails ==
  (Len(faces) = 1 /\ caller = "execute" /\ rigidity = 0 /\ last.vertex # 0)
    => last.rank < 3

\* C8 as amended: with rigidity 0 on a single quad face every vertex has one
\* plane row, so its anchor weight is the floor 1e-3 and not 0, and the system
\* has full rank 3: the solve does not fail.
C8_SingleQuadZeroRigiditySolves ==
  (Len(faces) = 1 /\ caller = "execute" /\ rigidity = 0 /\ last.vertex # 0)
    => /\ Len(last.rows) = 1
       /\ last.alpha = Floor
       /\ last.rank = 3

\* C8 witness: a vertex of the single quad has been solved with rigidity 0.
C8_Witness ==
  /\ Len(faces) = 1
  /\ caller = "execute"
  /\ req_rigidity = 0
  /\ rigidity = 0
  /\ prigidity = 0
  /\ last.vertex # 0

\* C9: a vertex is written only after its least-squares solve succeeded (a
\* rank-deficient system is reported for the vertex, not written).
C9_WrittenOnlyAfterSuccess ==
  (ValidRequest /\ caller = "execute" /\ last.vertex # 0) => last.rank = 3

\* C10: the plane rows a vertex is solved with are the normals and offsets of
\* the faces as they were when the pass started, whatever vertices were
\* written before it in the pass.
C10_RowsFromPassStart ==
  (ValidRequest /\ caller = "execute" /\ last.vertex # 0) =>
    \A k \in 1 .. Len(last.rows) :
      /\ last.rows[k].n = planes[last.vertex][k].n0
      /\ last.rows[k].c = planes[last.vertex][k].c
\* The faces visited so far in the current round.
VisitedInRound == {randfaces[k] : k \in 1 .. (pos - 1)}

\* C11: in each round every candidate face is visited exactly once, and the
\* update of a visited face reads, for each neighbor, the updated normal when
\* the neighbor was visited earlier in the round and the normal of the end of
\* the previous round otherwise; the result replaces the face's normal at
\* once and no other normal changes.
C11_VisitsReadCurrentNormals ==
  [][(pc = "visit" /\ pos <= Len(randfaces)) =>
       LET f == randfaces[pos]
           seen == [g \in FaceIds |->
                      IF g \in VisitedInRound THEN snormals[g] ELSE round_start[g]]
       IN /\ f \notin VisitedInRound
          /\ \A g \in FaceIds : Len(neighbors[g]) >= 3 => \E k \in 1 .. Len(randfaces) : randfaces[k] = g
          /\ \A j, k \in 1 .. Len(randfaces) : randfaces[j] = randfaces[k] => j = k
          /\ snormals'[f] = Value(Smoothened(f, seen, neighbors))
          /\ \A g \in FaceIds \ {f} : snormals'[g] = snormals[g]
          /\ pos' = pos + 1]_vars

\* C11 witness: a face is about to be visited in a round in which one of its
\* neighbors was already visited and changed, and another is still to come.
C11_Witness ==
  /\ pc = "visit"
  /\ pos >= 2
  /\ pos < Len(randfaces)
  /\ \E k \in 1 .. Len(neighbors[randfaces[pos]]) :
       LET g == neighbors[randfaces[pos]][k]
       IN g \in VisitedInRound /\ Read(snormals[g]) # Read(round_start[g])
  /\ \E k \in 1 .. Len(neighbors[randfaces[pos]]) :
       neighbors[randfaces[pos]][k] \notin VisitedInRound
  /\ Smoothened(randfaces[pos], snormals, neighbors)
       # Smoothened(randfaces[pos], round_start, neighbors)
\* The number of entries of a list that are g.
Occurrences(s, g) == Cardinality({k \in 1 .. Len(s) : s[k] = g})

\* The number of vertices two faces share: the vertices of f that g lists.
SharedVertices(f, g) ==
  Cardinality({faces[f][j] : j \in {i \in 1 .. Len(faces[f]) :
                                     \E k \in 1 .. Len(faces[g]) : faces[g][k] = faces[f][i]}})

\* C12: between the rounds (the lists are built once, before the first
\* round) the neighbor list built for a face never holds the face itself and
\* holds every other face as many times as the two faces share vertices; the
\* candidates are the faces whose list, duplicates counted, has at least 3
\* entries.
C12_NeighborMultiplicity ==
  pc = "round" =>
    /\ \A f \in FaceIds :
         /\ Occurrences(neighbors[f], f) = 0
         /\ \A g \in FaceIds \ {f} : Occurrences(neighbors[f], g) = SharedVertices(f, g)
    /\ {randfaces[k] : k \in 1 .. Len(randfaces)}
         = {f \in FaceIds : SeqSum([g \in FaceIds |-> IF g = f THEN 0 ELSE SharedVertices(f, g)]) >= 3}

\* C12 witness: a face with fewer than 3 different neighbors is a candidate,
\* because a neighbor is in its list more than once; another face has an
\* empty list.
C12_Witness ==
  /\ pc = "round"
  /\ round >= 1
  /\ \E f \in FaceIds :
       /\ \E k \in 1 .. Len(randfaces) : randfaces[k] = f
       /\ Cardinality({neighbors[f][k] : k \in 1 .. Len(neighbors[f])}) < 3
       /\ \E g \in FaceIds : Occurrences(neighbors[f], g) > 1
  /\ \E f \in FaceIds : neighbors[f] = << >>
\* C13: in the Snap Bisect modal operator the list of cut points never holds
\* more than 3 points, modal never answers RUNNING_MODAL with 3 points held,
\* modal calls execute only with exactly 3 points, and when the modal ends by
\* a cancel or by execute the draw handler that invoke added has been removed
\* exactly once (and not before).
C13_ModalPointsAndHandler ==
  /\ Len(points) <= 3
  /\ sb_result = "RUNNING_MODAL" => Len(points) < 3
  /\ sb_exec # 0 => sb_exec = 3 /\ Len(points) = 3
  /\ sb_modal => sb_added = 1 /\ sb_removed = 0
  /\ (sb_added = 1 /\ ~sb_modal /\ sb_result \in {"CANCELLED", "FINISHED"}) => sb_removed = 1
  /\ sb_removed <= sb_added

\* C13 witness: the modal ended in execute after an axis key completed one
\* picked point to 3 points, and the handler was removed once.
C13_Witness ==
  /\ sb_exec = 3
  /\ sb_result = "FINISHED"
  /\ sb_removed = 1
  /\ points[1] <= AnchorCount + 1
  /\ points[2] > 200
====
